---------------------------- MODULE Spec2Model ----------------------------
(***************************************************************************)
(* SQL persistence backend of a sparse Merkle tree (src/sql.go).           *)
(*                                                                         *)
(* Two tables, mt_nodes and mt_roots, are shared by all Storage values.    *)
(* A Storage value holds its tree id (mtId) and the cached current root.   *)
(* The four methods Get, Put, GetRoot and SetRoot are the actions; each    *)
(* issues at most one statement against the database handle, whose outcome *)
(* (nil or a storage error) is an input of the action.                     *)
(*                                                                         *)
(* Representation of Go values:                                            *)
(*   - a pointer or a nullable column is a sequence of length 0 (nil,      *)
(*     NULL) or 1 (the value it holds);                                    *)
(*   - a Hash is a sequence of ElemBytesLen bytes, a blob a sequence of    *)
(*     bytes;                                                              *)
(*   - an error is the chain of its messages, outermost first; nil is the  *)
(*     empty chain.                                                        *)
(***************************************************************************)
EXTENDS Integers, Sequences, FiniteSets, TLC

\* ------------------------------------------------------------------ bounds

\* Number of distinct hash values used as roots and node contents.
NumHashes == 2
\* Number of distinct node keys.
NumKeys == 1
\* Longest entry column drawn for a stored row that Put did not write.
MaxEntryLen == 66
\* Number of calls the goroutines make in all when calls run concurrently.
MaxCalls == 2

\* --------------------------------------------------------------- constants

\* merkletree.ElemBytesLen: the length of a Hash in bytes.
ElemBytesLen == 32
\* merkletree.NodeTypeMiddle, NodeTypeLeaf, NodeTypeEmpty.
NodeTypeMiddle == 0
NodeTypeLeaf == 1
NodeTypeEmpty == 2

\* ------------------------------------------------------- values and helpers

\* A nil pointer, a nil slice, a NULL column.
nil == <<>>
\* A non-nil pointer to v, a non-NULL column holding v.
Ptr(v) == <<v>>
\* The value a non-nil pointer or a non-NULL column holds.
Val(p) == p[1]
\* len() of a []byte read from or bound to a column: 0 for nil.
len(p) == IF p = nil THEN 0 ELSE Len(Val(p))

\* The v-th hash value: ElemBytesLen bytes, all hashes distinct, the two
\* halves of each distinct.
HashOf(v) == [i \in 1..ElemBytesLen |-> (v * i) % 256]
\* &merkletree.Hash{}: the zero hash.
ZeroHash == [i \in 1..ElemBytesLen |-> 0]
Hashes == {HashOf(v) : v \in 1..NumHashes}
Keys == {HashOf(v) : v \in 1..NumKeys}

\* Go's copy(dst, src): the first min(len) bytes of src over dst.
copy(dst, src) ==
    [i \in 1..Len(dst) |-> IF i <= Len(src) THEN src[i] ELSE dst[i]]

\* The Storage values and the tree id each was constructed with
\* (NewSqlStorage(db, mtId)): s1 and s3 share tree 1, s2 owns tree 2.
Backends == {"s1", "s2", "s3"}
mtId(s) == IF s = "s2" THEN 2 ELSE 1

\* ------------------------------------------------------------------ errors

\* sql.ErrNoRows, merkletree.ErrNotFound, merkletree.ErrNodeBytesBadSize.
ErrNoRows == <<"sql: no rows in result set">>
ErrNotFound == <<"key not found">>
ErrNodeBytesBadSize == <<"node data has incorrect size in the DB">>
\* The errors the database handle may return for a statement: the context's
\* cancellation and any other failure of the engine.
ErrCanceled == <<"context canceled">>
ErrEOF == <<"EOF">>
DbErrors == {ErrCanceled, ErrEOF}
\* What the handle answers to one statement: nil or one of its errors.
DbOutcomes == {nil} \cup DbErrors

\* storageError{err, msg}: msg in front of the chain of err.
newErr(err, msg) == <<msg>> \o err
\* storageError.Unwrap; nil for an error that wraps nothing.
Unwrap(err) == IF Len(err) > 1 THEN Tail(err) ELSE nil
\* storageError.Error: msg + ": " + err.Error(), as the pieces concatenated.
RECURSIVE Error(_)
Error(err) ==
    IF Len(err) <= 1 THEN err
    ELSE <<Head(err), ": ">> \o Error(Tail(err))

RootErrMsg == "failed to update current root hash"

\* ------------------------------------------------------------------- nodes

\* merkletree.Node: Type, ChildL, ChildR (*Hash) and Entry ([2]*Hash).
MkNode(t, l, r, e0, e1) ==
    [Type |-> t, ChildL |-> l, ChildR |-> r, Entry |-> <<e0, e1>>]

OptHashes == {nil} \cup {Ptr(h) : h \in Hashes}
NodeTypes == {NodeTypeMiddle, NodeTypeLeaf, NodeTypeEmpty}

\* Every node, valid or not, over a left child, a right child and all
\* entry halves of the hash values.
AllNodes ==
    {MkNode(t, l, r, e0, e1) :
        t \in NodeTypes, l \in {nil, Ptr(HashOf(2))}, r \in {nil, Ptr(HashOf(1))},
        e0 \in OptHashes, e1 \in OptHashes}

\* The nodes the tree operations of the full specification write: a leaf, a
\* middle node, the empty node, and leaves lacking one entry half.
LeafNode == MkNode(NodeTypeLeaf, nil, nil, Ptr(HashOf(1)), Ptr(HashOf(2)))
MiddleNode == MkNode(NodeTypeMiddle, Ptr(HashOf(2)), Ptr(HashOf(1)), nil, nil)
EmptyNode == MkNode(NodeTypeEmpty, nil, nil, nil, nil)
HalfNode == MkNode(NodeTypeLeaf, nil, nil, Ptr(HashOf(1)), nil)
PutNodes == {LeafNode, MiddleNode, EmptyNode, HalfNode}


\* ------------------------------------------------------------------- state

VARIABLES
    mt_nodes,     \* the rows of table mt_nodes
    mt_roots,     \* the rows of table mt_roots
    currentRoot,  \* Storage.currentRoot of each Storage value: nil or &hash
    last,         \* the last call: its receiver, arguments, statement, result
    calledRoot,   \* per Storage value: the hash of its latest SetRoot call,
                  \* or, before any, the hash its first successful lookup read
    putDone,      \* the (mt_id, key) pairs some Put has succeeded for
    pc,           \* per goroutine: the statement of its call it is at
    frame,        \* per goroutine in a call: its arguments and locals
    heap,         \* the Hash values SetRoot and GetRoot have allocated (one
                  \* per allocating goroutine), and which of them the
                  \* currentRoot of the shared Storage points to
    hist          \* the number of calls the goroutines have begun, whether
                  \* two calls have overlapped, whether a statement has
                  \* failed

\* The variables of calls that run concurrently; a call that runs alone,
\* from its first statement to its return in one step, leaves them.
conc == <<pc, frame, heap, hist>>

vars == <<mt_nodes, mt_roots, currentRoot, last, calledRoot, putDone,
          pc, frame, heap, hist>>

\* ---------------------------------------------------------------- database

\* A row of mt_nodes as Put's statement writes it: created_at and deleted_at
\* are not among the statement's columns and stay NULL.
NodeRow(id, key, type, childL, childR, entry) ==
    [mt_id |-> id, key |-> key, type |-> type, child_l |-> childL,
     child_r |-> childR, entry |-> entry, created_at |-> nil, deleted_at |-> nil]

\* A row of mt_roots as SetRoot's statement writes it.
RootRow(id, key) ==
    [mt_id |-> id, key |-> key, created_at |-> nil, deleted_at |-> nil]

\* The zero NodeItem and RootItem a failed lookup leaves untouched.
ZeroNodeItem == NodeRow(0, nil, 0, nil, nil, nil)
ZeroRootItem == RootRow(0, nil)

\* upsertStmt run as separate writes, not atomically: a failure arrives
\* after the type column of a conflicting row has been set.
upsertStmt_Partial(tbl, db, a) ==
    IF db # nil
    THEN {IF r.mt_id = a[1] /\ r.key = a[2] THEN [r EXCEPT !.type = a[7]] ELSE r :
             r \in tbl}
    ELSE IF \E r \in tbl : r.mt_id = a[1] /\ r.key = a[2]
    THEN {IF r.mt_id = a[1] /\ r.key = a[2]
          THEN [r EXCEPT !.type = a[7], !.child_l = a[8],
                         !.child_r = a[9], !.entry = a[10]]
          ELSE r : r \in tbl}
    ELSE tbl \cup {NodeRow(a[1], a[2], a[3], a[4], a[5], a[6])}

\* upsertStmt written with ON CONFLICT DO NOTHING: a conflicting row keeps
\* its columns.
upsertStmt_DoNothing(tbl, db, a) ==
    IF db # nil THEN tbl
    ELSE IF \E r \in tbl : r.mt_id = a[1] /\ r.key = a[2]
    THEN tbl
    ELSE tbl \cup {NodeRow(a[1], a[2], a[3], a[4], a[5], a[6])}

\* The upsert as a plain INSERT into a table without the primary key: a
\* second Put of a key adds a second row.
upsertStmt_InsertOnly(tbl, db, a) ==
    IF db # nil THEN tbl
    ELSE tbl \cup {NodeRow(a[1], a[2], a[3], a[4], a[5], a[6])}

\* upsertStmt, with its ten arguments a, on table tbl. The statement is one
\* atomic statement: when the handle answers an error nothing is written;
\* otherwise the row with the primary key (a[1], a[2]) is inserted from
\* a[1..6], or, on conflict, its four columns are set from a[7..10].
upsertStmt(tbl, db, a) ==
    IF db # nil THEN tbl
    ELSE IF \E r \in tbl : r.mt_id = a[1] /\ r.key = a[2]
    THEN {IF r.mt_id = a[1] /\ r.key = a[2]
          THEN [r EXCEPT !.type = a[7], !.child_l = a[8],
                         !.child_r = a[9], !.entry = a[10]]
          ELSE r : r \in tbl}
    ELSE tbl \cup {NodeRow(a[1], a[2], a[3], a[4], a[5], a[6])}

\* The root write as a plain INSERT into a table without the primary key:
\* every successful SetRoot adds a row and the earlier roots stay.
updateRootStmt_Append(tbl, db, a) ==
    IF db # nil THEN tbl
    ELSE tbl \cup {RootRow(a[1], a[2])}

\* updateRootStmt, with its three arguments a, on table tbl: inserts the row
\* (a[1], a[2]), or, on conflict on mt_id, sets its key to a[3].
updateRootStmt(tbl, db, a) ==
    IF db # nil THEN tbl
    ELSE IF \E r \in tbl : r.mt_id = a[1]
    THEN {IF r.mt_id = a[1] THEN [r EXCEPT !.key = a[3]] ELSE r : r \in tbl}
    ELSE tbl \cup {RootRow(a[1], a[2])}

\* The rows "WHERE mt_id = ? AND key = ?" selects from mt_nodes, and the
\* rows "WHERE mt_id = ?" selects from mt_roots.
NodeRows(tbl, id, key) == {r \in tbl : r.mt_id = id /\ r.key = key}
RootRows(tbl, id) == {r \in tbl : r.mt_id = id}

\* The node lookup written without "mt_id = ?": any tree's row of the key.
SelectNode_AnyTree(tbl, db, id, key) ==
    LET rows == {r \in tbl : r.key = key}
    IN  IF db # nil THEN [err |-> db, item |-> ZeroNodeItem]
        ELSE IF rows = {} THEN [err |-> ErrNoRows, item |-> ZeroNodeItem]
        ELSE [err |-> nil, item |-> CHOOSE r \in rows : TRUE]

\* GetContext with "SELECT * FROM mt_nodes WHERE mt_id = ? AND key = ?":
\* the handle's error, sql.ErrNoRows when no row matches, else the row.
SelectNode(tbl, db, id, key) ==
    LET rows == NodeRows(tbl, id, key)
    IN  IF db # nil THEN [err |-> db, item |-> ZeroNodeItem]
        ELSE IF rows = {} THEN [err |-> ErrNoRows, item |-> ZeroNodeItem]
        ELSE [err |-> nil, item |-> CHOOSE r \in rows : TRUE]

\* GetContext with "SELECT * FROM mt_roots WHERE mt_id = ?".
SelectRoot(tbl, db, id) ==
    LET rows == RootRows(tbl, id)
    IN  IF db # nil THEN [err |-> db, item |-> ZeroRootItem]
        ELSE IF rows = {} THEN [err |-> ErrNoRows, item |-> ZeroRootItem]
        ELSE [err |-> nil, item |-> CHOOSE r \in rows : TRUE]

\* ------------------------------------------------------------------- codec

\* The three columns Put computes from a node: child_l, child_r, entry.
EncodeChild(child) == IF child # nil THEN Ptr(Val(child)) ELSE nil

\* Put storing the one half a node has when the other is missing.
EncodeEntry_Either(entry) ==
    IF entry[1] # nil /\ entry[2] # nil
    THEN Ptr(Val(entry[1]) \o Val(entry[2]))
    ELSE IF entry[1] # nil THEN Ptr(Val(entry[1]))
    ELSE IF entry[2] # nil THEN Ptr(Val(entry[2]))
    ELSE nil

\* Put concatenating the entry halves in the wrong order.
EncodeEntry_Swapped(entry) ==
    IF entry[1] # nil /\ entry[2] # nil
    THEN Ptr(Val(entry[2]) \o Val(entry[1]))
    ELSE nil

EncodeEntry(entry) ==
    IF entry[1] # nil /\ entry[2] # nil
    THEN Ptr(Val(entry[1]) \o Val(entry[2]))
    ELSE nil

\* NodeItem.Node: the node of a row, or ErrNodeBytesBadSize.
DecodeChild(col) == IF col # nil THEN Ptr(copy(ZeroHash, Val(col))) ELSE nil

\* Node checking only that the entry is long enough, so that a longer
\* entry is truncated.
Node_LenBelow(item) ==
    IF len(item.entry) > 0 /\ len(item.entry) < 2 * ElemBytesLen
    THEN [node |-> nil, err |-> ErrNodeBytesBadSize]
    ELSE [node |-> Ptr(
              [Type |-> item.type,
               ChildL |-> DecodeChild(item.child_l),
               ChildR |-> DecodeChild(item.child_r),
               Entry |-> IF len(item.entry) > 0
                         THEN <<Ptr(copy(ZeroHash, SubSeq(Val(item.entry), 1, 32))),
                                Ptr(copy(ZeroHash, SubSeq(Val(item.entry), 33, 64)))>>
                         ELSE <<nil, nil>>]),
          err |-> nil]

Node(item) ==
    IF len(item.entry) > 0 /\ len(item.entry) # 2 * ElemBytesLen
    THEN [node |-> nil, err |-> ErrNodeBytesBadSize]
    ELSE [node |-> Ptr(
              [Type |-> item.type,
               ChildL |-> DecodeChild(item.child_l),
               ChildR |-> DecodeChild(item.child_r),
               Entry |-> IF len(item.entry) > 0
                         THEN <<Ptr(copy(ZeroHash, SubSeq(Val(item.entry), 1, 32))),
                                Ptr(copy(ZeroHash, SubSeq(Val(item.entry), 33, 64)))>>
                         ELSE <<nil, nil>>]),
          err |-> nil]

\* ---------------------------------------------------------------- methods

\* Get without the sql.ErrNoRows case, decoding the zero item when the
\* lookup's error is dropped.
GetResult_NoRowsIgnored(tbl, s, key, db) ==
    LET sel == SelectNode(tbl, db, mtId(s), Ptr(key))
        dec == Node(sel.item)
    IN  IF sel.err # nil /\ sel.err # ErrNoRows THEN [node |-> nil, err |-> sel.err]
        ELSE IF dec.err # nil THEN [node |-> nil, err |-> dec.err]
        ELSE [node |-> dec.node, err |-> nil]

\* Get reporting every failure of the lookup as ErrNotFound.
GetResult_AllNotFound(tbl, s, key, db) ==
    LET sel == SelectNode(tbl, db, mtId(s), Ptr(key))
        dec == Node(sel.item)
    IN  IF sel.err # nil THEN [node |-> nil, err |-> ErrNotFound]
        ELSE IF dec.err # nil THEN [node |-> nil, err |-> dec.err]
        ELSE [node |-> dec.node, err |-> nil]

\* What Storage.Get returns for key on the node table tbl when the handle
\* answers db: (node, err).
GetResult(tbl, s, key, db) ==
    LET sel == SelectNode(tbl, db, mtId(s), Ptr(key))
        dec == Node(sel.item)
    IN  IF sel.err = ErrNoRows THEN [node |-> nil, err |-> ErrNotFound]
        ELSE IF sel.err # nil THEN [node |-> nil, err |-> sel.err]
        ELSE IF dec.err # nil THEN [node |-> nil, err |-> dec.err]
        ELSE [node |-> dec.node, err |-> nil]

\* The arguments Storage.Put binds to upsertStmt.
PutArgs(s, key, node) ==
    LET childL == EncodeChild(node.ChildL)
        childR == EncodeChild(node.ChildR)
        entry == EncodeEntry(node.Entry)
    IN  <<mtId(s), Ptr(key), node.Type, childL, childR, entry,
          node.Type, childL, childR, entry>>

\* GetRoot checking a set cache against the table: when the lookup
\* succeeds it returns and caches the stored root.
GetRootResult_Revalidate(tbl, cur, s, db) ==
    LET sel == SelectRoot(tbl, db, mtId(s))
        read == copy(ZeroHash, IF sel.item.key = nil THEN <<>>
                               ELSE Val(sel.item.key))
    IN  IF cur # nil /\ sel.err # nil
        THEN [rhash |-> Ptr(copy(ZeroHash, Val(cur))), err |-> nil,
              cur |-> cur, stmts |-> 1]
        ELSE IF sel.err = ErrNoRows
        THEN [rhash |-> nil, err |-> ErrNotFound, cur |-> cur, stmts |-> 1]
        ELSE IF sel.err # nil
        THEN [rhash |-> nil, err |-> sel.err, cur |-> cur, stmts |-> 1]
        ELSE [rhash |-> Ptr(copy(ZeroHash, read)), err |-> nil,
              cur |-> Ptr(read), stmts |-> 1]

\* GetRoot without the cache's fast path: every call queries the table.
GetRootResult_NoCache(tbl, cur, s, db) ==
    LET sel == SelectRoot(tbl, db, mtId(s))
        read == copy(ZeroHash, IF sel.item.key = nil THEN <<>>
                               ELSE Val(sel.item.key))
    IN  IF sel.err = ErrNoRows
        THEN [rhash |-> nil, err |-> ErrNotFound, cur |-> cur, stmts |-> 1]
        ELSE IF sel.err # nil
        THEN [rhash |-> nil, err |-> sel.err, cur |-> cur, stmts |-> 1]
        ELSE [rhash |-> Ptr(copy(ZeroHash, read)), err |-> nil,
              cur |-> Ptr(read), stmts |-> 1]

\* GetRoot allocating currentRoot before the lookup, so that a lookup that
\* finds no row or fails leaves the zero hash cached.
GetRootResult_AllocFirst(tbl, cur, s, db) ==
    LET sel == SelectRoot(tbl, db, mtId(s))
        read == copy(ZeroHash, IF sel.item.key = nil THEN <<>>
                               ELSE Val(sel.item.key))
    IN  IF cur # nil
        THEN [rhash |-> Ptr(copy(ZeroHash, Val(cur))), err |-> nil,
              cur |-> cur, stmts |-> 0]
        ELSE IF sel.err = ErrNoRows
        THEN [rhash |-> nil, err |-> ErrNotFound, cur |-> Ptr(ZeroHash), stmts |-> 1]
        ELSE IF sel.err # nil
        THEN [rhash |-> nil, err |-> sel.err, cur |-> Ptr(ZeroHash), stmts |-> 1]
        ELSE [rhash |-> Ptr(copy(ZeroHash, read)), err |-> nil,
              cur |-> Ptr(read), stmts |-> 1]

\* What Storage.GetRoot does on the root table tbl with the cache cur when
\* the handle would answer db: the hash and error returned, the cache
\* afterwards, and the number of statements issued.
GetRootResult(tbl, cur, s, db) ==
    LET sel == SelectRoot(tbl, db, mtId(s))
        read == copy(ZeroHash, IF sel.item.key = nil THEN <<>>
                               ELSE Val(sel.item.key))
    IN  IF cur # nil
        THEN [rhash |-> Ptr(copy(ZeroHash, Val(cur))), err |-> nil,
              cur |-> cur, stmts |-> 0]
        ELSE IF sel.err = ErrNoRows
        THEN [rhash |-> nil, err |-> ErrNotFound, cur |-> cur, stmts |-> 1]
        ELSE IF sel.err # nil
        THEN [rhash |-> nil, err |-> sel.err, cur |-> cur, stmts |-> 1]
        ELSE [rhash |-> Ptr(copy(ZeroHash, read)), err |-> nil,
              cur |-> Ptr(read), stmts |-> 1]

\* SetRoot binding its statement before the copy: the statement writes the
\* root that was cached when the call began.
SetRootResult_BindBeforeCopy(cur, s, hash, db) ==
    LET old == IF cur = nil THEN ZeroHash ELSE Val(cur)
        new == copy(old, hash)
    IN  [cur |-> Ptr(new),
         args |-> <<mtId(s), Ptr(old), Ptr(old)>>,
         err |-> IF db # nil THEN newErr(db, RootErrMsg) ELSE nil]

\* SetRoot updating the cache only once the write has succeeded.
SetRootResult_CacheOnSuccess(cur, s, hash, db) ==
    LET new == copy(IF cur = nil THEN ZeroHash ELSE Val(cur), hash)
    IN  [cur |-> IF db = nil THEN Ptr(new) ELSE cur,
         args |-> <<mtId(s), Ptr(new), Ptr(new)>>,
         err |-> IF db # nil THEN newErr(db, RootErrMsg) ELSE nil]

\* SetRoot returning the handle's error as it is.
SetRootResult_Unwrapped(cur, s, hash, db) ==
    LET new == copy(IF cur = nil THEN ZeroHash ELSE Val(cur), hash)
    IN  [cur |-> Ptr(new),
         args |-> <<mtId(s), Ptr(new), Ptr(new)>>,
         err |-> db]

\* What Storage.SetRoot does with the cache cur when the handle answers db:
\* the cache afterwards, the arguments bound to updateRootStmt, the error.
SetRootResult(cur, s, hash, db) ==
    LET new == copy(IF cur = nil THEN ZeroHash ELSE Val(cur), hash)
    IN  [cur |-> Ptr(new),
         args |-> <<mtId(s), Ptr(new), Ptr(new)>>,
         err |-> IF db # nil THEN newErr(db, RootErrMsg) ELSE nil]

\* The record of a call: op, receiver s, arguments (key, node, hash), the
\* answer db the handle gives (or would give) to the call's statement, the
\* number stmts of statements issued, whether the root cache was set when
\* the call began (warm), the rows the call's statement addresses as they
\* were when the call began (before), and the results (err, and the node or
\* the root hash).
Call(op, s, key, node, hash, db, stmts, warm, before, err, rnode, rhash) ==
    [op |-> op, s |-> s, key |-> key, node |-> node, hash |-> hash,
     db |-> db, stmts |-> stmts, warm |-> warm, before |-> before,
     err |-> err, rnode |-> rnode, rhash |-> rhash]

NoCall == Call("none", "s1", nil, nil, nil, nil, 0, FALSE, {}, nil, nil, nil)

\* Get repairing the table as it reads: a row it cannot decode is deleted.
Get_DropUndecodable(s, key, db) ==
    LET res == GetResult(mt_nodes, s, key, db)
    IN  /\ last' = Call("Get", s, Ptr(key), nil, nil, db, 1,
                        currentRoot[s] # nil,
                        NodeRows(mt_nodes, mtId(s), Ptr(key)),
                        res.err, res.node, nil)
        /\ mt_nodes' = IF res.err = ErrNodeBytesBadSize
                       THEN mt_nodes \ NodeRows(mt_nodes, mtId(s), Ptr(key))
                       ELSE mt_nodes
        /\ UNCHANGED <<mt_roots, currentRoot, calledRoot, putDone, conc>>

\* Storage.Get(ctx, key).
Get(s, key, db) ==
    LET res == GetResult(mt_nodes, s, key, db)
    IN  /\ last' = Call("Get", s, Ptr(key), nil, nil, db, 1,
                        currentRoot[s] # nil,
                        NodeRows(mt_nodes, mtId(s), Ptr(key)),
                        res.err, res.node, nil)
        /\ UNCHANGED <<mt_nodes, mt_roots, currentRoot, calledRoot, putDone, conc>>

\* Storage.Put(ctx, key, node).
Put(s, key, node, db) ==
    /\ mt_nodes' = upsertStmt(mt_nodes, db, PutArgs(s, key, node))
    /\ last' = Call("Put", s, Ptr(key), Ptr(node), nil, db, 1,
                    currentRoot[s] # nil,
                    NodeRows(mt_nodes, mtId(s), Ptr(key)),
                    db, nil, nil)
    /\ putDone' = IF db = nil THEN putDone \cup {<<mtId(s), key>>} ELSE putDone
    /\ UNCHANGED <<mt_roots, currentRoot, calledRoot, conc>>

\* Storage.GetRoot(ctx).
GetRoot(s, db) ==
    LET res == GetRootResult(mt_roots, currentRoot[s], s, db)
    IN  /\ currentRoot' = [currentRoot EXCEPT ![s] = res.cur]
        /\ last' = Call("GetRoot", s, nil, nil, nil, db, res.stmts,
                        currentRoot[s] # nil, RootRows(mt_roots, mtId(s)),
                        res.err, nil, res.rhash)
        /\ calledRoot' = IF calledRoot[s] = nil /\ res.stmts = 1 /\ res.err = nil
                         THEN [calledRoot EXCEPT ![s] = res.rhash]
                         ELSE calledRoot
        /\ UNCHANGED <<mt_nodes, mt_roots, putDone, conc>>

\* Storage.SetRoot(ctx, hash).
SetRoot(s, hash, db) ==
    LET res == SetRootResult(currentRoot[s], s, hash, db)
    IN  /\ currentRoot' = [currentRoot EXCEPT ![s] = res.cur]
        /\ mt_roots' = updateRootStmt(mt_roots, db, res.args)
        /\ last' = Call("SetRoot", s, nil, nil, Ptr(hash), db, 1,
                        currentRoot[s] # nil, RootRows(mt_roots, mtId(s)),
                        res.err, nil, nil)
        /\ calledRoot' = [calledRoot EXCEPT ![s] = Ptr(hash)]
        /\ UNCHANGED <<mt_nodes, putDone, conc>>

\* ------------------------------------------------------- concurrent calls

\* Two goroutines that call the methods without mutual exclusion. Each of
\* their steps is one access to memory that goroutines share or one
\* database statement; a statement is atomic in the database.
Threads == {"t1", "t2"}

\* The locals of a call: its receiver and arguments, the arguments bound to
\* its statement (args), the Hash the destination slice of its copy points
\* to (dst), the bytes it copies (src), whether it found currentRoot set
\* (warm), the answer of the handle (db), the statements issued (stmts),
\* the rows its statement addressed (before) and its results.
Frame(op, s, key, node, hash) ==
    [op |-> op, s |-> s, key |-> key, node |-> node, hash |-> hash,
     args |-> <<>>, dst |-> nil, src |-> nil, warm |-> FALSE, db |-> nil,
     stmts |-> 0, before |-> {}, err |-> nil, rnode |-> nil, rhash |-> nil]

\* The record of the call of frame f, as it returns.
CallOf(f) ==
    Call(f.op, f.s, f.key, f.node, f.hash, f.db, f.stmts, f.warm, f.before,
         f.err, f.rnode, f.rhash)

InitConc ==
    /\ pc = [t \in Threads |-> "idle"]
    /\ frame = [t \in {} |-> nil]
    /\ heap = [ptr |-> nil, cell |-> [t \in {} |-> ZeroHash]]
    /\ hist = [calls |-> 0, overlap |-> FALSE, failed |-> FALSE]

\* A goroutine that is in no call calls a method, while fewer than MaxCalls
\* calls have been made. The call overlaps the call another goroutine is
\* in.
Begin(t, f, label) ==
    /\ pc[t] = "idle"
    /\ hist.calls < MaxCalls
    /\ pc' = [pc EXCEPT ![t] = label]
    /\ frame' = [u \in DOMAIN frame \cup {t} |-> IF u = t THEN f ELSE frame[u]]
    /\ hist' = [hist EXCEPT !.calls = @ + 1,
                            !.overlap = @ \/ \E u \in Threads : pc[u] # "idle"]

\* The call of goroutine t returns.
Return(t, label) ==
    /\ pc[t] = label
    /\ pc' = [pc EXCEPT ![t] = "idle"]
    /\ last' = CallOf(frame[t])
    /\ frame' = [u \in DOMAIN frame \ {t} |-> frame[u]]

\* Storage.Get, statement by statement: the call; GetContext and the
\* decoding of the row it read; the return.
GetBegin(t, s, key) ==
    /\ Begin(t, [Frame("Get", s, Ptr(key), nil, nil)
                    EXCEPT !.warm = currentRoot[s] # nil], "GetQuery")
    /\ UNCHANGED <<mt_nodes, mt_roots, currentRoot, last, calledRoot, putDone,
                   heap>>

GetQuery(t, db) ==
    LET res == GetResult(mt_nodes, frame[t].s, Val(frame[t].key), db)
    IN  /\ pc[t] = "GetQuery"
        /\ frame' = [frame EXCEPT
                         ![t].db = db, ![t].stmts = @ + 1,
                         ![t].before = NodeRows(mt_nodes, mtId(frame[t].s),
                                                frame[t].key),
                         ![t].err = res.err, ![t].rnode = res.node]
        /\ hist' = [hist EXCEPT !.failed = @ \/ db # nil]
        /\ pc' = [pc EXCEPT ![t] = "GetReturn"]
        /\ UNCHANGED <<mt_nodes, mt_roots, currentRoot, last, calledRoot,
                       putDone, heap>>

GetReturn(t) ==
    /\ Return(t, "GetReturn")
    /\ UNCHANGED <<mt_nodes, mt_roots, currentRoot, calledRoot, putDone, heap,
                   hist>>

\* Storage.Put, statement by statement: the call; the three columns
\* computed from the node; ExecContext; the return of its error.
PutBegin(t, s, key, node) ==
    /\ Begin(t, [Frame("Put", s, Ptr(key), Ptr(node), nil)
                    EXCEPT !.warm = currentRoot[s] # nil], "PutBind")
    /\ UNCHANGED <<mt_nodes, mt_roots, currentRoot, last, calledRoot, putDone,
                   heap>>

PutBind(t) ==
    /\ pc[t] = "PutBind"
    /\ frame' = [frame EXCEPT ![t].args =
                     PutArgs(frame[t].s, Val(frame[t].key), Val(frame[t].node))]
    /\ pc' = [pc EXCEPT ![t] = "PutExec"]
    /\ UNCHANGED <<mt_nodes, mt_roots, currentRoot, last, calledRoot, putDone,
                   heap, hist>>

PutExec(t, db) ==
    /\ pc[t] = "PutExec"
    /\ mt_nodes' = upsertStmt(mt_nodes, db, frame[t].args)
    /\ frame' = [frame EXCEPT ![t].db = db, ![t].err = db, ![t].stmts = @ + 1,
                              ![t].before = NodeRows(mt_nodes, mtId(frame[t].s),
                                                     frame[t].key)]
    /\ putDone' = IF db = nil
                  THEN putDone \cup {<<mtId(frame[t].s), Val(frame[t].key)>>}
                  ELSE putDone
    /\ hist' = [hist EXCEPT !.failed = @ \/ db # nil]
    /\ pc' = [pc EXCEPT ![t] = "PutReturn"]
    /\ UNCHANGED <<mt_roots, currentRoot, last, calledRoot, heap>>

PutReturn(t) ==
    /\ Return(t, "PutReturn")
    /\ UNCHANGED <<mt_nodes, mt_roots, currentRoot, calledRoot, putDone, heap,
                   hist>>

\* The Storage value the goroutines share in GetRoot and SetRoot.
Shared == "s1"

\* *s.currentRoot as the heap has it: nil, or the Hash the pointer leads to.
Deref(h) == IF h.ptr = nil THEN nil ELSE Ptr(h.cell[Val(h.ptr)])

\* copy is not atomic: another goroutine may read or write the destination
\* while part of it is copied. The copy is taken in two parts, the bytes
\* lo..hi of src at a time.
HalfLen == ElemBytesLen \div 2

\* A copy that stops one byte short of each part.
copyPart_OneShort(dst, src, lo, hi) ==
    [i \in 1..Len(dst) |->
        IF lo <= i /\ i < hi /\ i <= Len(src) THEN src[i] ELSE dst[i]]

copyPart(dst, src, lo, hi) ==
    [i \in 1..Len(dst) |->
        IF lo <= i /\ i <= hi /\ i <= Len(src) THEN src[i] ELSE dst[i]]

\* The heap after a step, and the currentRoot of the shared Storage value
\* that results.
Store(h) ==
    /\ heap' = h
    /\ currentRoot' = [currentRoot EXCEPT ![Shared] = Deref(h)]

\* Storage.SetRoot, statement by statement. The call tests currentRoot.
SetRootBegin(t, hash) ==
    /\ Begin(t, [Frame("SetRoot", Shared, nil, nil, Ptr(hash))
                    EXCEPT !.warm = heap.ptr # nil, !.src = Ptr(hash)],
             IF heap.ptr = nil THEN "Alloc" ELSE "CopyLow")
    /\ UNCHANGED <<mt_nodes, mt_roots, currentRoot, last, calledRoot, putDone,
                   heap>>

\* "s.currentRoot = &merkletree.Hash{}", of SetRoot and of GetRoot.
Alloc(t) ==
    /\ pc[t] = "Alloc"
    /\ Store([ptr |-> Ptr(t),
              cell |-> [u \in DOMAIN heap.cell \cup {t} |->
                           IF u = t THEN ZeroHash ELSE heap.cell[u]]])
    /\ pc' = [pc EXCEPT ![t] = "CopyLow"]
    /\ UNCHANGED <<mt_nodes, mt_roots, last, calledRoot, putDone, frame, hist>>

\* "copy(s.currentRoot[:], ...)", of SetRoot and of GetRoot: the slice is
\* taken of the Hash currentRoot points to now, and its first part copied.
CopyLow(t) ==
    /\ pc[t] = "CopyLow"
    /\ Store([heap EXCEPT !.cell[Val(heap.ptr)] =
                  copyPart(@, Val(frame[t].src), 1, HalfLen)])
    /\ frame' = [frame EXCEPT ![t].dst = heap.ptr]
    /\ pc' = [pc EXCEPT ![t] = "CopyHigh"]
    /\ UNCHANGED <<mt_nodes, mt_roots, last, calledRoot, putDone, hist>>

\* The second part of the copy, into the Hash the slice was taken of.
CopyHigh(t) ==
    /\ pc[t] = "CopyHigh"
    /\ Store([heap EXCEPT !.cell[Val(frame[t].dst)] =
                  copyPart(@, Val(frame[t].src), HalfLen + 1, ElemBytesLen)])
    /\ pc' = [pc EXCEPT ![t] = IF frame[t].op = "SetRoot" THEN "SetRootBind"
                                                          ELSE "GetRootOut"]
    /\ UNCHANGED <<mt_nodes, mt_roots, last, calledRoot, putDone, frame, hist>>

\* The arguments of ExecContext: the bytes of the Hash currentRoot points
\* to when the statement is bound.
SetRootBind(t) ==
    /\ pc[t] = "SetRootBind"
    /\ frame' = [frame EXCEPT ![t].args =
                     <<mtId(frame[t].s), Deref(heap), Deref(heap)>>]
    /\ pc' = [pc EXCEPT ![t] = "SetRootExec"]
    /\ UNCHANGED <<mt_nodes, mt_roots, currentRoot, last, calledRoot, putDone,
                   heap, hist>>

\* ExecContext in a loop that runs the statement again until it succeeds.
SetRootExec_Retry(t, db) ==
    /\ pc[t] = "SetRootExec"
    /\ mt_roots' = updateRootStmt(mt_roots, db, frame[t].args)
    /\ frame' = [frame EXCEPT
                     ![t].db = db, ![t].stmts = @ + 1,
                     ![t].before = RootRows(mt_roots, mtId(frame[t].s)),
                     ![t].err = IF db # nil THEN newErr(db, RootErrMsg) ELSE nil]
    /\ hist' = [hist EXCEPT !.failed = @ \/ db # nil]
    /\ pc' = [pc EXCEPT ![t] = IF db # nil /\ frame[t].stmts < 2
                                THEN "SetRootExec" ELSE "SetRootReturn"]
    /\ UNCHANGED <<mt_nodes, currentRoot, last, calledRoot, putDone, heap>>

SetRootExec(t, db) ==
    /\ pc[t] = "SetRootExec"
    /\ mt_roots' = updateRootStmt(mt_roots, db, frame[t].args)
    /\ frame' = [frame EXCEPT
                     ![t].db = db, ![t].stmts = @ + 1,
                     ![t].before = RootRows(mt_roots, mtId(frame[t].s)),
                     ![t].err = IF db # nil THEN newErr(db, RootErrMsg) ELSE nil]
    /\ hist' = [hist EXCEPT !.failed = @ \/ db # nil]
    /\ pc' = [pc EXCEPT ![t] = "SetRootReturn"]
    /\ UNCHANGED <<mt_nodes, currentRoot, last, calledRoot, putDone, heap>>

SetRootReturn(t) ==
    /\ Return(t, "SetRootReturn")
    /\ UNCHANGED <<mt_nodes, mt_roots, currentRoot, calledRoot, putDone, heap,
                   hist>>

\* Storage.GetRoot, statement by statement. The call tests currentRoot and,
\* when it is set, copies the Hash it points to.
GetRootBegin(t) ==
    /\ Begin(t, [Frame("GetRoot", Shared, nil, nil, nil)
                    EXCEPT !.warm = heap.ptr # nil,
                           !.rhash = IF heap.ptr = nil THEN nil
                                     ELSE Ptr(copy(ZeroHash, Val(Deref(heap))))],
             IF heap.ptr = nil THEN "GetRootQuery" ELSE "GetRootReturn")
    /\ UNCHANGED <<mt_nodes, mt_roots, currentRoot, last, calledRoot, putDone,
                   heap>>

GetRootQuery(t, db) ==
    LET sel == SelectRoot(mt_roots, db, mtId(frame[t].s))
    IN  /\ pc[t] = "GetRootQuery"
        /\ frame' = [frame EXCEPT
                         ![t].db = db, ![t].stmts = @ + 1,
                         ![t].before = RootRows(mt_roots, mtId(frame[t].s)),
                         ![t].err = IF sel.err = ErrNoRows THEN ErrNotFound
                                    ELSE sel.err,
                         ![t].src = sel.item.key]
        /\ hist' = [hist EXCEPT !.failed = @ \/ db # nil]
        /\ pc' = [pc EXCEPT ![t] = IF sel.err # nil THEN "GetRootReturn"
                                                    ELSE "GetRootCheck"]
        /\ UNCHANGED <<mt_nodes, mt_roots, currentRoot, last, calledRoot,
                       putDone, heap>>

\* The second test of currentRoot, after the lookup.
GetRootCheck(t) ==
    /\ pc[t] = "GetRootCheck"
    /\ pc' = [pc EXCEPT ![t] = IF heap.ptr = nil THEN "Alloc" ELSE "CopyLow"]
    /\ UNCHANGED <<mt_nodes, mt_roots, currentRoot, last, calledRoot, putDone,
                   frame, heap, hist>>

\* "copy(root[:], s.currentRoot[:])" after the lookup.
GetRootOut(t) ==
    /\ pc[t] = "GetRootOut"
    /\ frame' = [frame EXCEPT ![t].rhash = Ptr(copy(ZeroHash, Val(Deref(heap))))]
    /\ pc' = [pc EXCEPT ![t] = "GetRootReturn"]
    /\ UNCHANGED <<mt_nodes, mt_roots, currentRoot, last, calledRoot, putDone,
                   heap, hist>>

GetRootReturn(t) ==
    /\ Return(t, "GetRootReturn")
    /\ UNCHANGED <<mt_nodes, mt_roots, currentRoot, calledRoot, putDone, heap,
                   hist>>

\* ----------------------------------------------------------- specification

\* NewSqlStorage for every Storage value, over the empty schema.
Init ==
    /\ mt_nodes = {}
    /\ mt_roots = {}
    /\ currentRoot = [s \in Backends |-> nil]
    /\ last = NoCall
    /\ calledRoot = [s \in Backends |-> nil]
    /\ putDone = {}
    /\ InitConc

\* One Storage value per tree id, as the test's builder constructs them.
Owners == {"s1", "s2"}
\* The key both trees use in the full specification: the same key bytes
\* under two tree ids.
SharedKey == HashOf(1)
\* Two nodes with no column in common.
TwoNodes == {LeafNode, MiddleNode}

\* All four methods, on two trees that use the same key bytes.
Next ==
    \/ \E s \in Owners, db \in DbOutcomes : Get(s, SharedKey, db)
    \/ \E s \in Owners, node \in TwoNodes, db \in DbOutcomes :
           Put(s, SharedKey, node, db)
    \/ \E s \in Owners, db \in DbOutcomes : GetRoot(s, db)
    \/ \E s \in Owners, hash \in Hashes, db \in DbOutcomes : SetRoot(s, hash, db)

Spec == Init /\ [][Next]_vars

\* The node operations of two trees over every key.
NextNodes ==
    \/ \E s \in Owners, key \in Keys, db \in DbOutcomes : Get(s, key, db)
    \/ \E s \in Owners, key \in Keys, node \in PutNodes, db \in DbOutcomes :
           Put(s, key, node, db)

SpecNodes == Init /\ [][NextNodes]_vars

\* The root operations of all Storage values, two of which (s1, s3) were
\* constructed for the same tree id over the same tables.
NextShared ==
    \/ \E s \in Backends, db \in DbOutcomes : GetRoot(s, db)
    \/ \E s \in Backends, hash \in Hashes, db \in DbOutcomes : SetRoot(s, hash, db)

SpecShared == Init /\ [][NextShared]_vars

\* The codec through the table: one Storage value writes any node of
\* AllNodes, valid or not, and reads it back; the handle answers every
\* statement.
NextCodec ==
    \/ \E node \in AllNodes : Put("s1", SharedKey, node, nil)
    \/ Get("s1", SharedKey, nil)

SpecCodec == Init /\ [][NextCodec]_vars

\* Rows of mt_nodes that Put did not write (another writer of the schema, a
\* damaged file): any type and children, and an entry column that is NULL
\* or a blob of any length up to MaxEntryLen.
BlobOfLen(n) == [i \in 1..n |-> (7 * i) % 256]
StoredEntries == {nil} \cup {Ptr(BlobOfLen(n)) : n \in 0..MaxEntryLen}
StoredRows ==
    {NodeRow(1, Ptr(SharedKey), t, l, r, e) :
        t \in NodeTypes, l \in {nil, Ptr(HashOf(1))}, r \in {nil, Ptr(HashOf(2))},
        e \in StoredEntries}

InitStored ==
    /\ mt_nodes \in {{row} : row \in StoredRows}
    /\ mt_roots = {}
    /\ currentRoot = [s \in Backends |-> nil]
    /\ last = NoCall
    /\ calledRoot = [s \in Backends |-> nil]
    /\ putDone = {}
    /\ InitConc

\* Get on a table holding such a row.
NextDecode == \E db \in DbOutcomes : Get("s1", SharedKey, db)

SpecDecode == InitStored /\ [][NextDecode]_vars

\* All four methods on tables that may hold, when the Storage values are
\* constructed, a row of mt_nodes that Put did not write: a leaf of tree 1
\* whose entry column holds one hash instead of two.
ShortRow ==
    NodeRow(1, Ptr(SharedKey), NodeTypeLeaf, nil, nil, Ptr(BlobOfLen(ElemBytesLen)))

InitShort ==
    /\ mt_nodes \in {{}, {ShortRow}}
    /\ mt_roots = {}
    /\ currentRoot = [s \in Backends |-> nil]
    /\ last = NoCall
    /\ calledRoot = [s \in Backends |-> nil]
    /\ putDone = {}
    /\ InitConc

SpecShort == InitShort /\ [][Next]_vars

\* Two goroutines that put the two nodes under one key of one tree id, each
\* through either Storage value of that tree id.
SameTree == {"s1", "s3"}

NextPutRace ==
    \/ \E t \in Threads, s \in SameTree, node \in TwoNodes :
           PutBegin(t, s, SharedKey, node)
    \/ \E t \in Threads : PutBind(t)
    \/ \E t \in Threads, db \in DbOutcomes : PutExec(t, db)
    \/ \E t \in Threads : PutReturn(t)

SpecPutRace == Init /\ [][NextPutRace]_vars

\* Two goroutines that call GetRoot and SetRoot on one Storage value,
\* constructed over a root table that is empty or holds the root an
\* earlier Storage value of the tree id wrote.
InitRootRace ==
    /\ mt_nodes = {}
    /\ mt_roots \in {{}} \cup {{RootRow(mtId(Shared), Ptr(h))} : h \in Hashes}
    /\ currentRoot = [s \in Backends |-> nil]
    /\ last = NoCall
    /\ calledRoot = [s \in Backends |-> nil]
    /\ putDone = {}
    /\ InitConc

\* The answers of the handle to the statements of the two goroutines.
RaceOutcomes == {nil, ErrEOF}

NextRootRace ==
    \/ \E t \in Threads, hash \in Hashes : SetRootBegin(t, hash)
    \/ \E t \in Threads : GetRootBegin(t)
    \/ \E t \in Threads : Alloc(t)
    \/ \E t \in Threads : CopyLow(t)
    \/ \E t \in Threads : CopyHigh(t)
    \/ \E t \in Threads : SetRootBind(t)
    \/ \E t \in Threads, db \in RaceOutcomes : SetRootExec(t, db)
    \/ \E t \in Threads : SetRootReturn(t)
    \/ \E t \in Threads, db \in RaceOutcomes : GetRootQuery(t, db)
    \/ \E t \in Threads : GetRootCheck(t)
    \/ \E t \in Threads : GetRootOut(t)
    \/ \E t \in Threads : GetRootReturn(t)

SpecRootRace == InitRootRace /\ [][NextRootRace]_vars

\* One goroutine that calls all four methods on the shared Storage value,
\* one after the other, each call statement by statement.
Solo == "t1"

NextSteps ==
    \/ GetBegin(Solo, Shared, SharedKey)
    \/ \E db \in DbOutcomes : GetQuery(Solo, db)
    \/ GetReturn(Solo)
    \/ \E node \in TwoNodes : PutBegin(Solo, Shared, SharedKey, node)
    \/ PutBind(Solo)
    \/ \E db \in DbOutcomes : PutExec(Solo, db)
    \/ PutReturn(Solo)
    \/ \E hash \in Hashes : SetRootBegin(Solo, hash)
    \/ GetRootBegin(Solo)
    \/ Alloc(Solo)
    \/ CopyLow(Solo)
    \/ CopyHigh(Solo)
    \/ SetRootBind(Solo)
    \/ \E db \in DbOutcomes : SetRootExec(Solo, db)
    \/ SetRootReturn(Solo)
    \/ \E db \in DbOutcomes : GetRootQuery(Solo, db)
    \/ GetRootCheck(Solo)
    \/ GetRootOut(Solo)
    \/ GetRootReturn(Solo)

SpecSteps == InitRootRace /\ [][NextSteps]_vars

\* ------------------------------------------------------------------ claims

\* The root the table stores for tree id: nil when it has no row.
StoredRoot(id) ==
    IF RootRows(mt_roots, id) = {} THEN nil
    ELSE (CHOOSE r \in RootRows(mt_roots, id) : TRUE).key

\* The receiver, key and node of the last call.
LastId == mtId(last.s)
LastKey == Val(last.key)
LastNode == Val(last.node)

\* A valid node: a leaf with both entry halves and no children, a middle
\* node with children and no entry, or an empty node with neither.
IsValidNode(n) ==
    \/ /\ n.Type = NodeTypeLeaf
       /\ n.ChildL = nil /\ n.ChildR = nil
       /\ n.Entry[1] # nil /\ n.Entry[2] # nil
    \/ /\ n.Type = NodeTypeMiddle
       /\ n.ChildL # nil /\ n.ChildR # nil
       /\ n.Entry = <<nil, nil>>
    \/ /\ n.Type = NodeTypeEmpty
       /\ n.ChildL = nil /\ n.ChildR = nil
       /\ n.Entry = <<nil, nil>>

\* C1: once the root cache of a Storage value is warm (a SetRoot was called
\* on it, or one of its lookups succeeded), GetRoot on it returns the hash
\* of its latest SetRoot call, or before any the hash its first successful
\* lookup read, with a nil error and without a statement, whatever the
\* handle would answer to a statement now.
C1_WarmGetRootFromCache ==
    /\ \A s \in Backends, db \in DbOutcomes :
           calledRoot[s] # nil =>
               LET res == GetRootResult(mt_roots, currentRoot[s], s, db)
               IN  res.rhash = calledRoot[s] /\ res.err = nil /\ res.stmts = 0
    /\ (last.op = "GetRoot" /\ last.warm) =>
           /\ last.rhash = calledRoot[last.s]
           /\ last.rhash # nil
           /\ last.err = nil
           /\ last.stmts = 0

\* A warm GetRoot that returned a hash the root table does not hold, while
\* the handle would have failed a statement.
C1_Witness ==
    /\ last.op = "GetRoot" /\ last.warm
    /\ last.db \in DbErrors
    /\ last.err = nil
    /\ last.rhash = Ptr(HashOf(2))
    /\ StoredRoot(LastId) = Ptr(HashOf(1))

\* C2: after a successful Put(key, B) on a key that already had a row under
\* the same tree id, the table holds exactly one row for (tree id, key),
\* its type, child_l, child_r and entry are those of B (NULL where B has
\* none, whatever the earlier row had), and, B being valid, Get(key)
\* returns B.
C2_LastWriteWins ==
    (last.op = "Put" /\ last.err = nil /\ last.before # {}) =>
        LET a == PutArgs(last.s, LastKey, LastNode)
        IN  /\ Cardinality(NodeRows(mt_nodes, LastId, last.key)) = 1
            /\ NodeRows(mt_nodes, LastId, last.key)
                   = {NodeRow(LastId, last.key, LastNode.Type, a[4], a[5], a[6])}
            /\ IsValidNode(LastNode) =>
                   GetResult(mt_nodes, last.s, LastKey, nil)
                       = [node |-> last.node, err |-> nil]

\* A leaf put over the row of a middle node: the row had children and no
\* entry, the node read back has an entry and no children.
C2_Witness ==
    /\ last.op = "Put" /\ last.err = nil
    /\ last.node = Ptr(LeafNode)
    /\ \E r \in last.before : r.child_l # nil /\ r.child_r # nil /\ r.entry = nil
    /\ GetResult(mt_nodes, last.s, LastKey, nil).node = Ptr(LeafNode)

\* C3: for every valid node, the row a successful Put stores decodes (Node,
\* and Get through it) to a node with the same type, left child, right
\* child and both entry halves.
C3_RoundTrip ==
    (last.op = "Put" /\ last.err = nil /\ IsValidNode(LastNode)) =>
        /\ \A r \in NodeRows(mt_nodes, LastId, last.key) :
               LET dec == Node(r)
               IN  /\ dec.err = nil
                   /\ Val(dec.node).Type = LastNode.Type
                   /\ Val(dec.node).ChildL = LastNode.ChildL
                   /\ Val(dec.node).ChildR = LastNode.ChildR
                   /\ Val(dec.node).Entry[1] = LastNode.Entry[1]
                   /\ Val(dec.node).Entry[2] = LastNode.Entry[2]
        /\ NodeRows(mt_nodes, LastId, last.key) # {}
        /\ GetResult(mt_nodes, last.s, LastKey, nil).err = nil
        /\ Val(GetResult(mt_nodes, last.s, LastKey, nil).node) = LastNode

\* A leaf whose entry halves differ was put and its row decodes to it.
C3_Witness ==
    /\ last.op = "Put" /\ last.err = nil
    /\ LastNode = LeafNode
    /\ \E r \in mt_nodes :
           /\ len(r.entry) = 2 * ElemBytesLen
           /\ Node(r).node = Ptr(LeafNode)

\* C4: a Get of a key no Put has succeeded for under the tree id returns no
\* node and, when the lookup is answered, ErrNotFound (when the handle fails
\* the lookup, the handle's error); a Get of a key some Put has succeeded
\* for under the tree id never returns ErrNotFound.
C4_NotFoundIffNeverPut ==
    last.op = "Get" =>
        /\ <<LastId, LastKey>> \notin putDone =>
               /\ last.rnode = nil
               /\ last.err # nil
               /\ last.err # ErrNodeBytesBadSize
               /\ last.db = nil => last.err = ErrNotFound
               /\ last.db # nil => last.err = last.db
        /\ <<LastId, LastKey>> \in putDone => last.err # ErrNotFound

\* A Get that returned ErrNotFound for a key written under the other tree
\* id only.
C4_Witness ==
    /\ last.op = "Get" /\ last.err = ErrNotFound /\ last.rnode = nil
    /\ <<LastId, LastKey>> \notin putDone
    /\ \E id \in {1, 2} : id # LastId /\ <<id, LastKey>> \in putDone

\* C5: no Put and no SetRoot of a Storage value of one tree id changes what
\* Get (of any key, the same key bytes included) or GetRoot returns on a
\* Storage value of another tree id, whatever the handle answers. (The
\* results are compared in the steps that change a table or the cache they
\* are computed from.)
C5_NamespaceIsolation ==
    [][last'.op \in {"Put", "SetRoot"} =>
          \A s \in Backends :
              mtId(s) # mtId(last'.s) =>
                  /\ \/ mt_nodes' = mt_nodes
                     \/ \A key \in Keys \cup {SharedKey}, db \in DbOutcomes :
                            GetResult(mt_nodes', s, key, db)
                                = GetResult(mt_nodes, s, key, db)
                  /\ \/ mt_roots' = mt_roots /\ currentRoot'[s] = currentRoot[s]
                     \/ \A db \in DbOutcomes :
                            GetRootResult(mt_roots', currentRoot'[s], s, db)
                                = GetRootResult(mt_roots, currentRoot[s], s, db)]_vars

\* Tree 1 has just put a leaf under the key under which tree 2 holds a
\* middle node, and the two trees store different roots.
C5_Witness ==
    /\ last.op = "Put" /\ last.s = "s1" /\ last.err = nil
    /\ last.node = Ptr(LeafNode)
    /\ last.key = Ptr(SharedKey)
    /\ GetResult(mt_nodes, "s2", SharedKey, nil).node = Ptr(MiddleNode)
    /\ StoredRoot(1) = Ptr(HashOf(1))
    /\ StoredRoot(2) = Ptr(HashOf(2))
    /\ currentRoot["s2"] = Ptr(HashOf(2))

\* Whether an entry column has a length Node rejects: nonzero and not two
\* hashes.
BadEntry(r) == len(r.entry) # 0 /\ len(r.entry) # 2 * ElemBytesLen

\* C6: a row whose entry column has a nonzero length other than
\* 2 * ElemBytesLen decodes to ErrNodeBytesBadSize and no node, and Get on
\* it returns that error, not ErrNotFound and not a node; a row whose entry
\* has length zero decodes to a node with neither entry half.
C6_BadEntrySize ==
    /\ \A r \in mt_nodes :
           /\ BadEntry(r) => Node(r) = [node |-> nil, err |-> ErrNodeBytesBadSize]
           /\ len(r.entry) = 0 =>
                  /\ Node(r).err = nil
                  /\ Val(Node(r).node).Entry = <<nil, nil>>
    /\ (last.op = "Get" /\ last.db = nil) =>
           \A r \in last.before :
               /\ BadEntry(r) => last.err = ErrNodeBytesBadSize /\ last.rnode = nil
               /\ len(r.entry) = 0 =>
                      /\ last.err = nil
                      /\ Val(last.rnode).Entry = <<nil, nil>>

\* Get returned ErrNodeBytesBadSize on a row whose entry is one byte longer
\* than two hashes.
C6_Witness ==
    /\ last.op = "Get" /\ last.err = ErrNodeBytesBadSize
    /\ \E r \in mt_nodes : len(r.entry) = 2 * ElemBytesLen + 1

\* C7: when the write of SetRoot(h) fails, SetRoot returns an error whose
\* text is "failed to update current root hash: " followed by the text of
\* the handle's error and which unwraps to the handle's error; the root
\* table holds what it held before; the cache holds h, and a GetRoot now
\* returns h.
C7_FailedSetRoot ==
    (last.op = "SetRoot" /\ last.db # nil) =>
        /\ Head(last.err) = RootErrMsg
        /\ Error(last.err) = <<RootErrMsg, ": ">> \o Error(last.db)
        /\ Unwrap(last.err) = last.db
        /\ RootRows(mt_roots, LastId) = last.before
        /\ currentRoot[last.s] = last.hash
        /\ \A db \in DbOutcomes :
               LET res == GetRootResult(mt_roots, currentRoot[last.s], last.s, db)
               IN  res.rhash = last.hash /\ res.err = nil

\* SetRoot(h2) failed with EOF while the table holds h1.
C7_Witness ==
    /\ last.op = "SetRoot" /\ last.db = ErrEOF
    /\ last.hash = Ptr(HashOf(2))
    /\ last.before = {RootRow(LastId, Ptr(HashOf(1)))}
    /\ StoredRoot(LastId) = Ptr(HashOf(1))
    /\ currentRoot[last.s] = Ptr(HashOf(2))

\* Whether the cached root of s is set and differs from the stored root.
Diverged(s) == currentRoot[s] # nil /\ currentRoot[s] # StoredRoot(mtId(s))

\* C8 as stated: when a SetRoot write of a Storage value has failed and
\* left its cached root different from the stored root of its tree, the two
\* differ in every later state; stated for the step that follows.
C8_DivergedForever ==
    [][\A s \in Backends :
           (/\ last.op = "SetRoot" /\ last.s = s /\ last.db # nil
            /\ Diverged(s)) => Diverged(s)']_vars

\* C8, amended: when the write of SetRoot(h) fails while the table holds no
\* root or a root other than h, the cache holds h, the table holds what it
\* held, and the two differ; a difference between the cached and the stored
\* root ends only by a later SetRoot on that Storage value or a successful
\* SetRoot of another Storage value of the same tree id.
C8_DivergedUntilRootWrite ==
    /\ []((/\ last.op = "SetRoot" /\ last.db # nil
           /\ \A r \in last.before : r.key # last.hash) =>
              /\ Diverged(last.s)
              /\ currentRoot[last.s] = last.hash
              /\ RootRows(mt_roots, LastId) = last.before)
    /\ [][\A s \in Backends :
              (Diverged(s) /\ ~Diverged(s)') =>
                  /\ last'.op = "SetRoot"
                  /\ mtId(last'.s) = mtId(s)
                  /\ last'.s = s \/ last'.err = nil]_vars

\* After a failed SetRoot(h2) the cache holds h2 and the table h1.
C8_Witness ==
    /\ last.op = "SetRoot" /\ last.db # nil
    /\ Diverged(last.s)
    /\ currentRoot[last.s] = Ptr(HashOf(2))
    /\ StoredRoot(LastId) = Ptr(HashOf(1))

\* C9: the root cache of every Storage value starts unset. It becomes set
\* only by a GetRoot of that value whose lookup succeeds or by a SetRoot of
\* that value, and every SetRoot, failed or not, sets it. A GetRoot that
\* returns ErrNotFound or the handle's error found it unset, leaves it
\* unset, and the next GetRoot issues a statement again. Once set it is
\* never unset.
C9_CacheStateMachine ==
    /\ \A s \in Backends : currentRoot[s] = nil
    /\ [][\A s \in Backends :
              /\ (currentRoot[s] = nil /\ currentRoot'[s] # nil) =>
                     /\ last'.s = s
                     /\ \/ last'.op = "SetRoot"
                        \/ last'.op = "GetRoot" /\ last'.err = nil /\ last'.stmts = 1
              /\ (last'.op = "SetRoot" /\ last'.s = s) => currentRoot'[s] # nil
              /\ (last'.op = "GetRoot" /\ last'.s = s /\ last'.err = nil) =>
                     currentRoot'[s] # nil
              /\ (last'.op = "GetRoot" /\ last'.s = s /\ last'.err # nil) =>
                     /\ last'.err \in {ErrNotFound} \cup DbErrors
                     /\ currentRoot[s] = nil
                     /\ currentRoot'[s] = nil
                     /\ \A db \in DbOutcomes :
                            GetRootResult(mt_roots', currentRoot'[s], s, db).stmts = 1
              /\ currentRoot[s] # nil => currentRoot'[s] # nil]_vars

\* A GetRoot failed by the handle left the cache unset although the table
\* holds a root, which the other Storage value of the tree has cached.
C9_Witness ==
    /\ last.op = "GetRoot" /\ last.err \in DbErrors
    /\ ~last.warm
    /\ currentRoot[last.s] = nil
    /\ StoredRoot(LastId) # nil
    /\ \E s \in Backends :
           s # last.s /\ mtId(s) = LastId /\ currentRoot[s] = StoredRoot(LastId)

\* C10: after a Put or a SetRoot that the handle failed (by cancellation or
\* any other error), the call returned an error and the row it addresses is
\* exactly as before the call or exactly the complete new row, never a row
\* with some columns old and some new.
C10_NoPartialWrite ==
    /\ (last.op = "Put" /\ last.db # nil) =>
           LET a == PutArgs(last.s, LastKey, LastNode)
           IN  /\ last.err # nil
               /\ \/ NodeRows(mt_nodes, LastId, last.key) = last.before
                  \/ NodeRows(mt_nodes, LastId, last.key)
                         = {NodeRow(a[1], a[2], a[3], a[4], a[5], a[6])}
    /\ (last.op = "SetRoot" /\ last.db # nil) =>
           /\ last.err # nil
           /\ \/ RootRows(mt_roots, LastId) = last.before
              \/ RootRows(mt_roots, LastId) = {RootRow(LastId, last.hash)}

\* A cancelled Put of a leaf over the row of a middle node left that row.
C10_Witness ==
    /\ last.op = "Put" /\ last.db = ErrCanceled
    /\ last.node = Ptr(LeafNode)
    /\ last.before = {NodeRow(LastId, last.key, NodeTypeMiddle,
                              Ptr(HashOf(2)), Ptr(HashOf(1)), nil)}
    /\ NodeRows(mt_nodes, LastId, last.key) = last.before

\* C11: after any sequence of SetRoot calls the root table holds at most
\* one row per tree id, and after a successful SetRoot(h) the row of the
\* receiver's tree id is (id, h) and nothing else: the root the table held
\* before is gone.
C11_OneRootPerTree ==
    /\ \A s \in Backends : Cardinality(RootRows(mt_roots, mtId(s))) <= 1
    /\ (last.op = "SetRoot" /\ last.err = nil) =>
           /\ RootRows(mt_roots, LastId) = {RootRow(LastId, last.hash)}
           /\ \A r \in last.before :
                  r.key # last.hash => r \notin mt_roots

\* A successful SetRoot(h2) on a tree whose row held h1: the row holds h2.
C11_Witness ==
    /\ last.op = "SetRoot" /\ last.err = nil
    /\ last.hash = Ptr(HashOf(2))
    /\ last.before = {RootRow(LastId, Ptr(HashOf(1)))}
    /\ mt_roots = {RootRow(LastId, Ptr(HashOf(2)))}

\* C12: Get has no side effects. A Get step ends in one of four outcomes (a
\* node, ErrNotFound, ErrNodeBytesBadSize, the handle's error) and in each
\* of them the node table, the root table and the root cache of every
\* Storage value are what they were.
C12_GetFrame ==
    [][last'.op = "Get" =>
           /\ mt_nodes' = mt_nodes
           /\ mt_roots' = mt_roots
           /\ currentRoot' = currentRoot
           /\ \/ last'.err = nil /\ last'.rnode # nil
              \/ last'.err \in {ErrNotFound, ErrNodeBytesBadSize} \cup DbErrors
                     /\ last'.rnode = nil]_vars

\* A Get that returned the decode error, on a Storage value whose cache is
\* warm, with a root stored and the undecodable row still in the table.
C12_Witness ==
    /\ last.op = "Get" /\ last.err = ErrNodeBytesBadSize
    /\ currentRoot[last.s] # nil
    /\ StoredRoot(LastId) # nil
    /\ ShortRow \in mt_nodes

\* The row the statement of the Put in frame f writes.
RowOf(f) ==
    NodeRow(f.args[1], f.args[2], f.args[3], f.args[4], f.args[5], f.args[6])

\* C13: when Put calls for one (tree id, key) run concurrently, the table
\* never holds two rows for the key; a statement that succeeds leaves
\* exactly the complete row of its own node, whatever row another call's
\* statement had left and whatever the other call has bound; no other step
\* of a call changes the table; and the error of a call is the answer of
\* the handle, so that a Put the handle answers does not fail. After both
\* succeed the row is therefore that of the statement that ran last.
C13_ConcurrentPut ==
    /\ [](\A s \in Backends, key \in Keys :
              Cardinality(NodeRows(mt_nodes, mtId(s), Ptr(key))) <= 1)
    /\ [](\A t \in Threads : pc[t] = "PutReturn" => frame[t].err = frame[t].db)
    /\ [][\A t \in Threads :
              IF pc[t] = "PutExec" /\ pc'[t] = "PutReturn" /\ frame'[t].db = nil
              THEN LET n == Val(frame[t].node)
                   IN  /\ NodeRows(mt_nodes', mtId(frame[t].s), frame[t].key)
                              = {RowOf(frame[t])}
                       /\ RowOf(frame[t])
                              = NodeRow(mtId(frame[t].s), frame[t].key, n.Type,
                                        n.ChildL, n.ChildR,
                                        IF n.Entry[1] # nil /\ n.Entry[2] # nil
                                        THEN Ptr(Val(n.Entry[1]) \o Val(n.Entry[2]))
                                        ELSE nil)
              ELSE (\A u \in Threads : ~(pc[u] = "PutExec" /\ pc'[u] = "PutReturn"))
                       => mt_nodes' = mt_nodes]_vars

\* Both goroutines are in a Put of the same key and tree id, of different
\* nodes, neither has returned, both statements have succeeded, the leaf's
\* was bound before the middle node's ran, and the row is the whole leaf.
C13_Witness ==
    /\ pc["t1"] = "PutReturn" /\ pc["t2"] = "PutReturn"
    /\ frame["t1"].err = nil /\ frame["t2"].err = nil
    /\ frame["t1"].node = Ptr(LeafNode) /\ frame["t2"].node = Ptr(MiddleNode)
    /\ frame["t1"].before = {RowOf(frame["t2"])}
    /\ mt_nodes = {RowOf(frame["t1"])}

\* No goroutine is in a call.
AllIdle == \A t \in Threads : pc[t] = "idle"

\* C14: the root cache is not synchronized. When goroutines call SetRoot
\* and GetRoot on one Storage value, the cached root can differ from the
\* stored root after all calls have returned and every statement has
\* succeeded (C14_Witness), and it does so only when two calls have
\* overlapped: calls that run one after the other leave the two equal.
C14_UnsynchronizedCache ==
    (AllIdle /\ ~hist.failed /\ Diverged(Shared)) => hist.overlap

\* All calls have returned, every statement has succeeded, the cache
\* holds h1 and the table h2.
C14_Witness ==
    /\ AllIdle /\ ~hist.failed /\ hist.overlap
    /\ currentRoot[Shared] = Ptr(HashOf(1))
    /\ StoredRoot(mtId(Shared)) = Ptr(HashOf(2))

\* C15: a Get or a GetRoot that returns ErrNotFound issued its lookup, the
\* handle answered it, and no row matched. When the handle fails the lookup
\* the call returns the handle's error itself, not wrapped and not
\* ErrNotFound, whether or not a row matches, and returns no node and no
\* hash.
C15_LookupErrors ==
    (last.op \in {"Get", "GetRoot"}) =>
        /\ last.err = ErrNotFound =>
               last.stmts = 1 /\ last.db = nil /\ last.before = {}
        /\ (last.stmts = 1 /\ last.db # nil) =>
               /\ last.err = last.db
               /\ Error(last.err) = Error(last.db)
               /\ last.err # ErrNotFound
               /\ last.rnode = nil /\ last.rhash = nil

\* A Get whose lookup the handle failed with EOF while the table holds the
\* row of the key: the call returned EOF and no node.
C15_Witness ==
    /\ last.op = "Get" /\ last.stmts = 1
    /\ last.db = ErrEOF /\ last.err = ErrEOF
    /\ last.before # {}
    /\ last.rnode = nil

\* The label at which the call of a method returns.
ReturnLabel(op) ==
    CASE op = "Get" -> "GetReturn"
      [] op = "Put" -> "PutReturn"
      [] op = "SetRoot" -> "SetRootReturn"
      [] op = "GetRoot" -> "GetRootReturn"
      [] OTHER -> "idle"

\* C16: a call of Get, Put or SetRoot has issued exactly one statement when
\* it returns, a call of GetRoot one when it found the cache unset and none
\* when it found it set. A statement the handle fails is not run again:
\* the call goes to its return with an error, and the call returns that
\* error. A call whose statement the handle answered returns no error
\* other than ErrNotFound or the decode error of what it read.
C16_OneStatementPerCall ==
    /\ [](\A t \in Threads :
              /\ pc[t] # "idle" => frame[t].stmts <= 1
              /\ pc[t] \in {"GetReturn", "PutReturn", "SetRootReturn"} =>
                     frame[t].stmts = 1
              /\ pc[t] = "GetRootReturn" =>
                     frame[t].stmts = IF frame[t].warm THEN 0 ELSE 1)
    /\ [](/\ last.op \in {"Get", "Put", "SetRoot"} => last.stmts = 1
          /\ last.op = "GetRoot" => last.stmts = IF last.warm THEN 0 ELSE 1
          /\ last.err # nil =>
                 \/ last.stmts = 1 /\ last.db # nil
                 \/ last.err \in {ErrNotFound, ErrNodeBytesBadSize})
    /\ [][\A t \in Threads :
              /\ (/\ pc[t] # "idle" /\ pc'[t] # "idle"
                  /\ frame'[t].stmts = frame[t].stmts + 1
                  /\ frame'[t].db # nil) =>
                     /\ pc'[t] = ReturnLabel(frame[t].op)
                     /\ frame'[t].err # nil
                     /\ frame'[t].err \in {frame'[t].db,
                                           newErr(frame'[t].db, RootErrMsg)}
              /\ (pc[t] # "idle" /\ pc'[t] = "idle") =>
                     /\ pc[t] = ReturnLabel(frame[t].op)
                     /\ last'.op = frame[t].op
                     /\ last'.err = frame[t].err
                     /\ last'.stmts = frame[t].stmts]_vars

\* A SetRoot whose one statement the handle failed has returned the error,
\* and the table holds no root.
C16_Witness ==
    /\ last.op = "SetRoot" /\ last.stmts = 1
    /\ last.db = ErrEOF
    /\ last.err = newErr(ErrEOF, RootErrMsg)
    /\ mt_roots = {}
    /\ AllIdle

\* C17: after a successful Put of a node with exactly one entry half, the
\* entry column of its row is NULL and a Get of the key returns a node with
\* neither half, of the type and children put. The column is not NULL only
\* when both halves are present, and then it is the first half followed by
\* the second: 2 * ElemBytesLen bytes. A Get that read a row whose entry
\* is NULL returned a node with neither half.
C17_HalfEntryDropped ==
    /\ (last.op = "Put" /\ last.err = nil) =>
           LET n == LastNode
               rows == NodeRows(mt_nodes, LastId, last.key)
               got == GetResult(mt_nodes, last.s, LastKey, nil)
           IN  \A r \in rows :
                   /\ ((n.Entry[1] = nil) # (n.Entry[2] = nil)) =>
                          /\ r.entry = nil
                          /\ got.err = nil
                          /\ Val(got.node).Entry = <<nil, nil>>
                          /\ Val(got.node).Type = n.Type
                          /\ Val(got.node).ChildL = n.ChildL
                          /\ Val(got.node).ChildR = n.ChildR
                   /\ r.entry # nil <=> (n.Entry[1] # nil /\ n.Entry[2] # nil)
                   /\ r.entry # nil =>
                          /\ Len(Val(r.entry)) = 2 * ElemBytesLen
                          /\ SubSeq(Val(r.entry), 1, ElemBytesLen) = Val(n.Entry[1])
                          /\ SubSeq(Val(r.entry), ElemBytesLen + 1, 2 * ElemBytesLen)
                                 = Val(n.Entry[2])
    /\ (last.op = "Get" /\ last.err = nil) =>
           \A r \in last.before :
               r.entry = nil => Val(last.rnode).Entry = <<nil, nil>>

\* A Get returned a leaf with neither entry half from the row that the Put
\* of a leaf with one half had left.
C17_Witness ==
    /\ last.op = "Get" /\ last.err = nil
    /\ last.before = {NodeRow(LastId, last.key, NodeTypeLeaf, nil, nil, nil)}
    /\ Val(last.rnode).Type = NodeTypeLeaf
    /\ Val(last.rnode).Entry = <<nil, nil>>
    /\ mt_nodes = last.before
    /\ mt_nodes = upsertStmt({}, nil, PutArgs(last.s, LastKey, HalfNode))

\* The Storage values that are the only ones of their tree id.
SoleWriters ==
    {s \in Backends : \A u \in Backends : mtId(u) = mtId(s) => u = s}

\* C18: for a Storage value that is the only writer of its tree id and is
\* used sequentially, the cached root, when set, equals the stored root as
\* long as no SetRoot write has failed: the two are equal at first, and
\* the only step after which they differ when they did not before is a
\* SetRoot of that Storage value whose write failed.
C18_SoleWriterCoherent ==
    /\ \A s \in SoleWriters : ~Diverged(s)
    /\ [][\A s \in SoleWriters :
              (~Diverged(s) /\ Diverged(s)') =>
                  /\ last'.op = "SetRoot"
                  /\ last'.s = s
                  /\ last'.db # nil]_vars

\* The sole writer of a tree has overwritten the root h1 by h2: cache and
\* table hold h2.
C18_Witness ==
    /\ last.op = "SetRoot" /\ last.s \in SoleWriters /\ last.err = nil
    /\ last.before = {RootRow(LastId, Ptr(HashOf(1)))}
    /\ currentRoot[last.s] = Ptr(HashOf(2))
    /\ StoredRoot(LastId) = Ptr(HashOf(2))

\* C19: of two Storage values constructed for one tree id over the same
\* tables, a successful SetRoot(h) of one leaves the cache of the other as
\* it was. When the other's cache is set, GetRoot on it returns after the
\* step what it returned before, its cached hash, without a statement,
\* whatever the handle would answer; when it is unset, as on a Storage
\* value just constructed, GetRoot on it reads h from the table.
C19_WarmPeerKeepsRoot ==
    [][\A s, u \in Backends :
           (/\ last'.op = "SetRoot" /\ last'.s = s /\ last'.err = nil
            /\ u # s /\ mtId(u) = mtId(s)) =>
               /\ currentRoot'[u] = currentRoot[u]
               /\ IF currentRoot[u] # nil
                  THEN \A db \in DbOutcomes :
                           LET now == GetRootResult(mt_roots', currentRoot'[u], u, db)
                           IN  /\ now = GetRootResult(mt_roots, currentRoot[u], u, db)
                               /\ now.rhash = currentRoot[u]
                               /\ now.err = nil
                               /\ now.stmts = 0
                  ELSE GetRootResult(mt_roots', currentRoot'[u], u, nil)
                           = [rhash |-> last'.hash, err |-> nil,
                              cur |-> last'.hash, stmts |-> 1]]_vars

\* After a successful SetRoot(h2) of one Storage value the table holds h2
\* and the other Storage value of the tree id, whose cache holds h1,
\* returned h1 from GetRoot before and returns h1 now.
C19_Witness ==
    /\ last.op = "SetRoot" /\ last.err = nil
    /\ last.hash = Ptr(HashOf(2))
    /\ StoredRoot(LastId) = Ptr(HashOf(2))
    /\ \E u \in Backends :
           /\ u # last.s /\ mtId(u) = LastId
           /\ currentRoot[u] = Ptr(HashOf(1))
           /\ GetRootResult(mt_roots, currentRoot[u], u, nil).rhash = Ptr(HashOf(1))

=============================================================================
